---- MODULE Spec2Model ----
(***************************************************************************)
(* A model of the YBU course-selection agents.                             *)
(*                                                                         *)
(*   Spec        BrowserAgent (src/agents/browser_agent.py): the calls     *)
(*               login, fetch_courses, check_course_availability and       *)
(*               select_course, the last three wrapped by                  *)
(*               _retry_on_auth_error.                                     *)
(*   SpecCaptcha CaptchaSolverAgent (src/agents/captcha_solver_agent.py):  *)
(*               construction, recognize_text and solve_captcha.           *)
(*                                                                         *)
(* The web site, the browser and the OCR engine are the environment: what  *)
(* they answer is drawn from small sets.  Python values are written as     *)
(* strings ("None", "True", "False"); a text whose keywords the code       *)
(* searches is a sequence of characters, one ASCII token per glyph.        *)
(* Init of Spec is the agent after __init__ and start().                   *)
(***************************************************************************)
EXTENDS Integers, Sequences, FiniteSets, TLC

VARIABLES
    \* ---- BrowserAgent: the call in progress and the retry wrapper
    op,          \* the public method being executed, "idle" when none
    pc,          \* position inside the call
    attempt,     \* loop variable of _retry_on_auth_error
    outcome,     \* "none" | "returned" | "raised"
    result,      \* the value the call returned
    funcRes,     \* what the wrapped function did in the current attempt
    current_url, \* self.page.url as the last auth check read it
    \* ---- locals of the wrapped functions
    fetched,     \* _fetch: the page it parsed
    response,    \* _check: the body page.content() gave
    sel,         \* _select: its locals
    lg,          \* login: its arguments and effects
    \* ---- CaptchaSolverAgent
    cap,         \* the solver object and the call in progress
    \* ---- the other components, each followed in a specification of its own
    dm,          \* DataManagerAgent: the courses table and the call in progress
    cli,         \* CLIInterfaceAgent: a run of auto-select-all
    web,         \* app.py: the Flask session, user_sessions, tasks and jobs
    sch,         \* SchedulerAgent: its jobs and the firing in progress
    img          \* BrowserAgent.get_captcha_image: a call of it

browserVars == <<op, pc, attempt, outcome, result, funcRes, current_url,
                 fetched, response, sel, lg>>
captchaVars == <<cap>>
otherVars == <<dm, cli, web, sch, img>>
vars == <<op, pc, attempt, outcome, result, funcRes, current_url,
          fetched, response, sel, lg, cap, dm, cli, web, sch, img>>

\* A component no call of which is followed.
Idle == [pc |-> "none"]

OtherInit ==
    /\ dm = Idle /\ cli = Idle /\ web = Idle /\ sch = Idle /\ img = Idle

(***************************************************************************)
(* Bounds of the model.                                                    *)
(***************************************************************************)
MaxCourseRows == 2      \* rows of the course table _parse_courses reads
MaxAaData == 2          \* entries of aaData in an availability response
MaxClasses == 2         \* rows of the class table of a course page
MaxEnrolledRows == 2    \* rows of the enrolled-course table
MaxAlerts == 1          \* JavaScript alerts captured after the submit
MaxScripts == 1         \* redirecting <script> elements of the final page
MaxLen == 2             \* length of a text the OCR model returns
MaxNewSchedules == 2    \* schedules of the course check_time_conflicts checks
MaxExistingSchedules == 1   \* schedules it checks them against
MaxRegular == 2         \* courses of the 'regular' list of courses_data
MaxRetake == 1          \* courses of its 'retake' list
MaxCliCourses == 3      \* courses an auto-select-all run goes through
MaxLimit == 2           \* largest --max-courses
MaxJobs == 2            \* jobs submitted to the thread pool
MaxCourseIds == 2       \* course ids given to add_auto_enrollment_job

(***************************************************************************)
(* Helpers on sequences.                                                   *)
(***************************************************************************)
SeqsUpTo(S, n) == UNION {[1..k -> S] : k \in 0..n}

\* Python: kw in text
Contains(text, kw) ==
    \E i \in 1..(Len(text) - Len(kw) + 1) : SubSeq(text, i, i + Len(kw) - 1) = kw

\* Python: any(keyword in text for keyword in keywords)
AnyIn(keywords, text) == \E kw \in keywords : Contains(text, kw)

(***************************************************************************)
(* self.page.url and _check_auth_status.                                   *)
(***************************************************************************)
login_url == "/jsxsd/"

\* Where the page may be when its URL is read.
Urls == {"/jsxsd/xsxk/xsxk_index", "/jsxsd/xk/LoginToXk", "/sso/login"}

\* "jsxsd" in current_url
HasJsxsd(url) == url \in {"/jsxsd/", "/jsxsd/xsxk/xsxk_index", "/jsxsd/xk/LoginToXk"}

\* "login" in current_url.lower()
HasLoginLower(url) == url \in {"/jsxsd/xk/LoginToXk", "/sso/login"}

CheckAuthStatus(url) == HasJsxsd(url) /\ ~HasLoginLower(url)

(***************************************************************************)
(* Results of a wrapped function.                                          *)
(***************************************************************************)
NoRes == [kind |-> "none", val |-> "None"]
Ret(v) == [kind |-> "ret", val |-> v]
Exc(e) == [kind |-> "exc", val |-> e]

(***************************************************************************)
(* fetch_courses: _fetch and _parse_courses.                               *)
(***************************************************************************)
\* The rows of table#dataList: the number of <td>, whether the last cell
\* holds a link, the kcid of the link's query and whether the link is a
\* retake link (comeInGgxxkxk_Ybdx with cxcktype=1).
CourseRowKinds == {
    [tds |-> 1, link |-> FALSE, kcid |-> "None", retake |-> FALSE],
    [tds |-> 8, link |-> FALSE, kcid |-> "None", retake |-> FALSE],
    [tds |-> 8, link |-> TRUE,  kcid |-> "None", retake |-> FALSE],
    [tds |-> 8, link |-> TRUE,  kcid |-> "k1",   retake |-> FALSE],
    [tds |-> 8, link |-> TRUE,  kcid |-> "k2",   retake |-> TRUE] }

Htmls == [table : BOOLEAN, rows : SeqsUpTo(CourseRowKinds, MaxCourseRows)]

NoHtml == [table |-> FALSE, rows |-> <<>>]

EmptyCourses == [regular |-> <<>>, retake |-> <<>>, all |-> <<>>]

CourseIds(rows) == [i \in 1..Len(rows) |-> rows[i].kcid]

ParseCourses(html) ==
    IF ~html.table THEN EmptyCourses
    ELSE LET kept == SelectSeq(html.rows,
                       LAMBDA r : r.tds >= 7 /\ r.link /\ r.kcid # "None")
         IN [regular |-> CourseIds(SelectSeq(kept, LAMBDA r : ~r.retake)),
             retake  |-> CourseIds(SelectSeq(kept, LAMBDA r : r.retake)),
             all     |-> CourseIds(kept)]

\* The ways through _fetch: which await fails and which page is parsed.
FetchFlows == {"goto_raises", "window_closed", "no_code", "iframe",
               "fallback", "fallback_raises"}

Fetch(flow, html) ==
    CASE flow = "goto_raises"     -> Exc("Error")
      [] flow = "window_closed"   -> Ret(EmptyCourses)
      [] flow = "no_code"         -> Exc("Exception")
      [] flow = "iframe"          -> Ret(ParseCourses(html))
      [] flow = "fallback"        -> Ret(ParseCourses(html))
      [] flow = "fallback_raises" -> Exc("Error")

(***************************************************************************)
(* check_course_availability: _check.                                      *)
(***************************************************************************)
\* class_data.get('syrs', '0') as the server may send it.
SyrsValues == {"missing", "0", "1", "2", "-1", "full", "null"}

\* int(...) of it; "full" raises ValueError and "null" (None) TypeError.
IntRaises(syrs) == syrs \in {"full", "null"}

PyInt(syrs) ==
    CASE syrs = "missing" -> 0
      [] syrs = "0" -> 0
      [] syrs = "1" -> 1
      [] syrs = "2" -> 2
      [] syrs = "-1" -> 0 - 1

\* The body of the response: not JSON, a JSON scalar (null, a number), a
\* JSON array, or a JSON object whose key aaData is absent, null or a list.
Responses ==
    [json : {"invalid", "scalar", "array", "object"}, aaDataIs : {"absent"},
     aaData : {<<>>}]
    \cup [json : {"object"}, aaDataIs : {"null"}, aaData : {<<>>}]
    \cup [json : {"object"}, aaDataIs : {"list"},
          aaData : SeqsUpTo(SyrsValues, MaxAaData)]

NoResponse == [json |-> "invalid", aaDataIs |-> "absent", aaData |-> <<>>]

NoneClass == [jx0404id |-> 0, remaining |-> 0, available |-> FALSE]

DefaultAvailability ==
    [available |-> FALSE, total_remaining |-> 0, classes |-> <<>>,
     best_class |-> NoneClass]

Classes(aaData) ==
    [i \in 1..Len(aaData) |->
        [jx0404id |-> i, remaining |-> PyInt(aaData[i]),
         available |-> PyInt(aaData[i]) > 0]]

RECURSIVE TotalAvailable(_)
TotalAvailable(classes) ==
    IF classes = <<>> THEN 0
    ELSE LET last == classes[Len(classes)]
         IN TotalAvailable(SubSeq(classes, 1, Len(classes) - 1))
              + (IF last.remaining > 0 THEN last.remaining ELSE 0)

\* A sum that also counts the negative counts.
RECURSIVE TotalAvailableSigned(_)
TotalAvailableSigned(classes) ==
    IF classes = <<>> THEN 0
    ELSE TotalAvailableSigned(SubSeq(classes, 1, Len(classes) - 1))
           + classes[Len(classes)].remaining

\* Python: max(classes, key=lambda x: x['remaining']), the first maximum.
MaxByRemaining(classes) ==
    LET i == CHOOSE k \in 1..Len(classes) :
                 /\ \A j \in 1..Len(classes) : classes[j].remaining <= classes[k].remaining
                 /\ \A j \in 1..(k - 1) : classes[j].remaining < classes[k].remaining
    IN classes[i]

Availability(classes) ==
    [available |-> TotalAvailable(classes) > 0,
     total_remaining |-> TotalAvailable(classes),
     classes |-> classes,
     best_class |-> IF classes # <<>> THEN MaxByRemaining(classes) ELSE NoneClass]

Check(resp) ==
    IF resp.json = "invalid" THEN Ret(DefaultAvailability)
    ELSE IF resp.json = "scalar" THEN Exc("TypeError")
    ELSE IF resp.json = "array" THEN Ret(DefaultAvailability)
    ELSE IF resp.aaDataIs = "absent" THEN Ret(DefaultAvailability)
    ELSE IF resp.aaDataIs = "null" THEN Exc("TypeError")
    ELSE IF Len(resp.aaData) = 0 THEN Ret(DefaultAvailability)
    ELSE IF \E i \in 1..Len(resp.aaData) : IntRaises(resp.aaData[i])
         THEN Exc("ValueError")
    ELSE Ret(Availability(Classes(resp.aaData)))

(***************************************************************************)
(* Texts and the keywords select_course searches them for.  One token per  *)
(* glyph: cheng gong = 成功, yi xuan = 已选, xuan ke = 选课, tian jia =    *)
(* 添加, shi bai = 失败, cuo wu = 错误, yan zheng ma = 验证码, yi man =    *)
(* 已满, shi2 jian = 时间, chong tu = 冲突, chong2 fu = 重复,              *)
(* ke cheng2 lie biao = 课程列表, wei = 未, qing shao hou = 请稍候.        *)
(***************************************************************************)
alert_success_keywords == {<<"cheng", "gong">>, <<"yi", "xuan">>,
                           <<"xuan", "ke", "cheng", "gong">>}

alert_failure_keywords == {<<"shi", "bai">>, <<"cuo", "wu">>,
                           <<"yan", "zheng", "ma">>, <<"yi", "man">>}

success_keywords == {<<"cheng", "gong">>, <<"yi", "xuan">>,
                     <<"xuan", "ke", "cheng", "gong">>,
                     <<"tian", "jia", "cheng", "gong">>}

error_keywords == {<<"shi", "bai">>, <<"cuo", "wu">>, <<"yan", "zheng", "ma">>,
                   <<"yi", "man">>, <<"shi2", "jian">>, <<"chong", "tu">>,
                   <<"chong2", "fu">>}

kw_xuanke == <<"xuan", "ke">>
kw_kechengliebiao == <<"ke", "cheng2", "lie", "biao">>

\* What an alert, a page or a title may say.
Texts == {
    <<"xuan", "ke", "cheng", "gong">>,                     \* 选课成功
    <<"xuan", "ke", "shi", "bai">>,                        \* 选课失败
    <<"xuan", "ke", "shi", "bai", "wei", "cheng", "gong">>, \* 选课失败未成功
    <<"shi2", "jian", "chong", "tu">>,                     \* 时间冲突
    <<"qing", "shao", "hou">>,                             \* 请稍候
    <<"xuan", "ke", "ke", "cheng2", "lie", "biao">> }      \* 选课课程列表

NoText == <<>>

(***************************************************************************)
(* check_enrolled_courses.                                                 *)
(***************************************************************************)
status_selected == <<"xuan", "zhong">>          \* 选中

\* A row of the enrolled table: its number of <td>, the text of cells[1]
\* and of cells[9] (absent when the row has fewer than 10 cells).
EnrolledRowKinds ==
    [cells : {9}, name : {"A"}, status : {NoText}]
    \cup [cells : {10}, name : {"", "A", "B"},
          status : {status_selected, <<"wei", "xuan", "zhong">>}]

\* The page xsxk_index: goto or parsing raised; else whether a table.display
\* with the headers 课程名 and 选课状态 exists, and the rows of the first one.
EnrolledPages ==
    [raised : {TRUE}, found : {FALSE}, rows : {<<>>}]
    \cup [raised : {FALSE}, found : {FALSE}, rows : {<<>>}]
    \cup [raised : {FALSE}, found : {TRUE},
          rows : SeqsUpTo(EnrolledRowKinds, MaxEnrolledRows)]

NoPage == [raised |-> FALSE, found |-> FALSE, rows |-> <<>>]

\* if status == "选中" and course_name, of a row with at least 10 cells
IsEnrolledRow(r) == r.cells >= 10 /\ r.status = status_selected /\ r.name # ""

check_enrolled_courses(page) ==
    IF page.raised \/ ~page.found THEN <<>>
    ELSE LET kept == SelectSeq(page.rows, IsEnrolledRow)
         IN [i \in 1..Len(kept) |-> kept[i].name]

\* Python: x in list
InList(x, list) == \E i \in 1..Len(list) : list[i] = x

CourseNames == {"None", "", "A", "B"}

(***************************************************************************)
(* _select, step 2: the class with the most remaining seats.               *)
(***************************************************************************)
\* A row of table#dataView: its number of <td>, the text of cells[8] and
\* the href of the link in cells[10] ("none": no link, "bad": a link that
\* neither pattern parses).  "full" is no digit string; "sup2" is a string
\* str.isdigit() accepts and int() rejects.
ClassRowKinds ==
    [cells : {9}, remaining_text : {"2"}, link : {"none"}]
    \cup [cells : {10}, remaining_text : {"0", "2"}, link : {"none"}]
    \cup [cells : {11}, remaining_text : {"0", "1", "2", "full"},
          link : {"none", "xsxkFun", "xsxkOper", "bad"}]
    \cup [cells : {11}, remaining_text : {"sup2"}, link : {"xsxkFun"}]

\* The page: no table#dataView, a table that says 对不起 (no data), or rows.
ClassTables ==
    [kind : {"absent", "sorry"}, rows : {<<>>}]
    \cup [kind : {"rows"}, rows : SeqsUpTo(ClassRowKinds, MaxClasses)]

NoTable == [kind |-> "absent", rows |-> <<>>]

IsDigit(text) == text \in {"0", "1", "2", "sup2"}

IntTextRaises(text) == text = "sup2"

IntText(text) == CASE text = "0" -> 0 [] text = "1" -> 1 [] text = "2" -> 2

LinkParses(link) == link \in {"xsxkFun", "xsxkOper"}

\* len(cells) >= 10 and no cell of class dataTables_empty
ValidRows(rows) ==
    SelectSeq([i \in 1..Len(rows) |-> i], LAMBDA i : rows[i].cells >= 10)

\* The loop over valid_rows; raised is the IndexError of cells[10].
RECURSIVE ScanClasses(_, _, _, _, _)
ScanClasses(rows, valid, k, max_remaining, best) ==
    IF k > Len(valid) THEN [raised |-> FALSE, best |-> best]
    ELSE LET r == rows[valid[k]]
         IN IF IsDigit(r.remaining_text) /\ IntTextRaises(r.remaining_text)
            THEN ScanClasses(rows, valid, k + 1, max_remaining, best)
            ELSE LET remaining == IF IsDigit(r.remaining_text)
                                  THEN IntText(r.remaining_text) ELSE 0
                 IN IF remaining <= max_remaining
                    THEN ScanClasses(rows, valid, k + 1, max_remaining, best)
                    ELSE IF r.cells < 11
                    THEN [raised |-> TRUE, best |-> best]
                    ELSE IF LinkParses(r.link)
                    THEN ScanClasses(rows, valid, k + 1, remaining, valid[k])
                    ELSE ScanClasses(rows, valid, k + 1, max_remaining, best)

\* What step 2 does when no jx0404id was given: "False" (return False),
\* "raise" (an exception leaves _select) or "ok" with the best class, named
\* by its row.
ChooseClass(table) ==
    IF table.kind = "absent" THEN [ret |-> "False", best |-> 0]
    ELSE IF table.kind = "sorry" THEN [ret |-> "False", best |-> 0]
    ELSE IF ValidRows(table.rows) = <<>> THEN [ret |-> "False", best |-> 0]
    ELSE LET scan == ScanClasses(table.rows, ValidRows(table.rows), 1, 0, 0)
         IN IF scan.raised THEN [ret |-> "raise", best |-> 0]
            ELSE IF scan.best = 0 THEN [ret |-> "False", best |-> 0]
            ELSE [ret |-> "ok", best |-> scan.best]

(***************************************************************************)
(* _select, steps 5 and 6: the captcha form.                               *)
(***************************************************************************)
\* What the browser shows after the click: a popup page (with or without a
\* verifyCode input), a visible #verifyCodeDiv, an iframe with the input, the
\* input on the main page; whether get_captcha_image / the working page give
\* an image; the code solve_captcha returns; whether an input was filled;
\* how the form was submitted; where an exception is raised.
CaptchaForms ==
    [popup : {"none", "no_input", "input"}, div : BOOLEAN, iframe : BOOLEAN,
     direct : BOOLEAN, mainImage : BOOLEAN, workImage : BOOLEAN,
     code : {"", "ab12"}, filled : BOOLEAN,
     submit : {"button", "enter", "js", "none"},
     raises : {"none", "before_submit", "after_submit"}]

WorkingPage(ui) ==
    IF ui.popup = "input" THEN "popup"
    ELSE IF ui.div THEN "main"
    ELSE IF ui.iframe THEN "iframe"
    ELSE IF ui.direct THEN "main"
    ELSE "None"

HasImage(ui) == ui.mainImage \/ (WorkingPage(ui) # "main" /\ ui.workImage)

\* Whether the form was submitted, and whether _select goes on to read the
\* result ("go") or returns False.
CaptchaStep(ui) ==
    LET ready == /\ WorkingPage(ui) # "None"
                 /\ HasImage(ui)
                 /\ ui.code # ""
                 /\ ui.filled
    IN IF ui.raises = "before_submit" \/ ~ready \/ ui.submit = "none"
       THEN [ret |-> "False", submitted |-> FALSE]
       ELSE IF ui.raises = "after_submit"
       THEN [ret |-> "False", submitted |-> TRUE]
       ELSE [ret |-> "go", submitted |-> TRUE]

(***************************************************************************)
(* _select: reading the result of the submit.                              *)
(***************************************************************************)
\* The loop over alert_messages: the first message with a keyword decides.
RECURSIVE AlertVerdict(_)
AlertVerdict(msgs) ==
    IF msgs = <<>> THEN "None"
    ELSE IF AnyIn(alert_success_keywords, Head(msgs)) THEN "True"
    ELSE IF AnyIn(alert_failure_keywords, Head(msgs)) THEN "False"
    ELSE AlertVerdict(Tail(msgs))

\* if any(success) ... elif any(error) ..., on a page's content or title.
KeywordVerdict(text) ==
    IF AnyIn(success_keywords, text) THEN "True"
    ELSE IF AnyIn(error_keywords, text) THEN "False"
    ELSE "None"

\* Lines 1166-1224: the alerts, then the final content.
ReadResult(alerts, content) ==
    IF AlertVerdict(alerts) # "None" THEN AlertVerdict(alerts)
    ELSE KeywordVerdict(content)

\* The loop over the redirecting scripts: the first redirected content with
\* a keyword decides.
RECURSIVE RedirectVerdict(_)
RedirectVerdict(contents) ==
    IF contents = <<>> THEN "None"
    ELSE IF KeywordVerdict(Head(contents)) # "None"
         THEN KeywordVerdict(Head(contents))
    ELSE RedirectVerdict(Tail(contents))

\* "选课" in final_content and "课程列表" in final_content
BackToList(content) ==
    Contains(content, kw_xuanke) /\ Contains(content, kw_kechengliebiao)

\* What the nested fetch_courses() gives: it raised, or a courses dict;
\* 'selected_courses' in updated_courses, then course_id in its kcid list.
RefetchVerdict(refetch, course_id) ==
    IF refetch.kind # "ret" THEN "None"
    ELSE IF "selected_courses" \notin DOMAIN refetch.val THEN "None"
    ELSE IF InList(course_id, refetch.val.selected_courses) THEN "True"
    ELSE "False"

\* A last line that reports success when nothing was found.
DeepCheckOptimistic(content, title, refetch, redirected, exc, course_id) ==
    IF exc = "at_parse" THEN "False"
    ELSE IF KeywordVerdict(title) # "None" THEN KeywordVerdict(title)
    ELSE IF BackToList(content) /\ RefetchVerdict(refetch, course_id) # "None"
         THEN RefetchVerdict(refetch, course_id)
    ELSE IF exc = "at_redirect" /\ redirected # <<>> THEN "False"
    ELSE IF RedirectVerdict(redirected) # "None" THEN RedirectVerdict(redirected)
    ELSE "True"

\* Lines 1226-1300: the title, the re-fetched course list, the redirects;
\* an exception (exc) at the parse or at a redirect ends the search and
\* False is returned.
DeepCheck(content, title, refetch, redirected, exc, course_id) ==
    IF exc = "at_parse" THEN "False"
    ELSE IF KeywordVerdict(title) # "None" THEN KeywordVerdict(title)
    ELSE IF BackToList(content) /\ RefetchVerdict(refetch, course_id) # "None"
         THEN RefetchVerdict(refetch, course_id)
    ELSE IF exc = "at_redirect" /\ redirected # <<>> THEN "False"
    ELSE IF RedirectVerdict(redirected) # "None" THEN RedirectVerdict(redirected)
    ELSE "False"

(***************************************************************************)
(* BrowserAgent: the state machine.                                        *)
(***************************************************************************)
\* range(self.retry_count) taken one too far.
retry_count_plus_one == 3 + 1

retry_count == 3

course_id == "k1"

\* The jx0404id argument of select_course: 0 for None, or a class id.
JxArgs == {0, 1}

SelInit(jx) ==
    [jx0404id |-> jx,                 \* the argument
     page |-> NoPage,                 \* step 0: the enrolled page
     current_course_name |-> "None",  \* step 0
     table |-> NoTable,               \* step 2: table#dataView of content
     best_class |-> 0,                \* step 2: the row chosen, 0 for None
     selected_jx0404id |-> jx,
     js_function |-> "xsxkFun",
     clicked |-> FALSE,               \* the select link of selected_jx0404id was clicked
     submitted |-> FALSE,             \* the captcha form was submitted
     alert_messages |-> <<>>,
     final_content |-> NoText,
     title |-> NoText,
     redirected |-> <<>>,
     at |-> "none"]                   \* the step whose return ended _select

LoginInit ==
    [captcha_element |-> FALSE, captcha_code |-> "None", filled |-> FALSE,
     submitted |-> FALSE, auth_status |-> FALSE, cookies_saved |-> FALSE,
     raised |-> "none"]

NoFetched == [flow |-> "none", html |-> NoHtml]

BrowserInit ==
    /\ op = "idle"
    /\ pc = "idle"
    /\ attempt = 0
    /\ outcome = "none"
    /\ result = "None"
    /\ funcRes = NoRes
    /\ current_url = "None"
    /\ fetched = NoFetched
    /\ response = NoResponse
    /\ sel = SelInit(0)
    /\ lg = LoginInit

\* Every call starts from the same locals whatever call came before it, so
\* a behaviour follows one call from the idle agent to its end.
Callable == pc = "idle"

\* A call of a wrapped method: the wrapper starts its first attempt.
StartCall(name, jx) ==
    /\ Callable
    /\ op' = name
    /\ pc' = "func"
    /\ attempt' = 0
    /\ outcome' = "none"
    /\ result' = "None"
    /\ funcRes' = NoRes
    /\ current_url' = "None"
    /\ fetched' = NoFetched
    /\ response' = NoResponse
    /\ sel' = SelInit(jx)
    /\ lg' = LoginInit
    /\ UNCHANGED <<cap, otherVars>>

fetch_courses == StartCall("fetch_courses", 0)

check_course_availability == StartCall("check_course_availability", 0)

select_course == \E jx \in JxArgs : StartCall("select_course", jx)

\* One run of _fetch.
fetch_attempt ==
    /\ op = "fetch_courses" /\ pc = "func"
    /\ \E flow \in FetchFlows, html \in Htmls :
          /\ fetched' = [flow |-> flow,
                         html |-> IF flow \in {"iframe", "fallback"}
                                  THEN html ELSE NoHtml]
          /\ funcRes' = Fetch(flow, html)
    /\ pc' = "auth"
    /\ UNCHANGED <<op, attempt, outcome, result, current_url, response, sel, lg, cap, otherVars>>

\* One run of _check.
check_attempt ==
    /\ op = "check_course_availability" /\ pc = "func"
    /\ \E resp \in Responses :
          /\ response' = resp
          /\ funcRes' = Check(resp)
    /\ pc' = "auth"
    /\ UNCHANGED <<op, attempt, outcome, result, current_url, fetched, sel, lg, cap, otherVars>>

\* _select ends with "return v" at step st, or with an exception.
SelectReturns(v, st, locals) ==
    /\ sel' = [locals EXCEPT !.at = st]
    /\ funcRes' = Ret(v)
    /\ pc' = "auth"

SelectRaises(e, st, locals) ==
    /\ sel' = [locals EXCEPT !.at = st]
    /\ funcRes' = Exc(e)
    /\ pc' = "auth"

SelectGoesOn(next, locals) ==
    /\ sel' = locals
    /\ funcRes' = funcRes
    /\ pc' = next

\* Step 0, the awaits: the enrolled page and the name of this course (None
\* when the page, the table or the cell could not be read).
select_check_enrolled ==
    /\ op = "select_course" /\ pc = "func"
    /\ \E page \in EnrolledPages, name \in CourseNames :
          SelectGoesOn("s0", [sel EXCEPT !.page = page,
                                         !.current_course_name = name])
    /\ UNCHANGED <<op, attempt, outcome, result, current_url, fetched, response, lg, cap, otherVars>>

\* A step 0 that goes on to select whatever the enrolled list says.
SkipIfEnrolledNever(locals) ==
    SelectGoesOn("s1", [locals EXCEPT !.page = NoPage,
                                      !.current_course_name = "None"])

\* Step 0, the decision: if current_course_name in enrolled_courses: return
\* True.  Otherwise the selection goes on; the locals of step 0 are dead.
SkipIfEnrolled(locals) ==
    IF /\ locals.current_course_name # "None"
       /\ InList(locals.current_course_name, check_enrolled_courses(locals.page))
    THEN SelectReturns("True", "s0", locals)
    ELSE SelectGoesOn("s1", [locals EXCEPT !.page = NoPage,
                                           !.current_course_name = "None"])

select_skip_if_enrolled ==
    /\ op = "select_course" /\ pc = "s0"
    /\ SkipIfEnrolled(sel)
    /\ UNCHANGED <<op, attempt, outcome, result, current_url, fetched, response, lg, cap, otherVars>>

\* Steps 1 and 2: page.content() (which may raise) and, when no jx0404id was
\* given, the choice of the class.
select_choose_class ==
    /\ op = "select_course" /\ pc = "s1"
    /\ \E contentRaises \in BOOLEAN,
          table \in IF sel.jx0404id = 0 THEN ClassTables ELSE {NoTable} :
          LET locals == [sel EXCEPT !.table = IF contentRaises THEN NoTable ELSE table]
              ch == ChooseClass(table)
          IN IF contentRaises THEN SelectRaises("Error", "s1", locals)
             ELSE IF sel.jx0404id # 0 THEN SelectGoesOn("s3", locals)
             ELSE IF ch.ret = "False" THEN SelectReturns("False", "s2", locals)
             ELSE IF ch.ret = "raise" THEN SelectRaises("IndexError", "s2", locals)
             ELSE SelectGoesOn("s3",
                    [locals EXCEPT !.best_class = ch.best,
                                   !.selected_jx0404id = ch.best,
                                   !.js_function = table.rows[ch.best].link])
    /\ UNCHANGED <<op, attempt, outcome, result, current_url, fetched, response, lg, cap, otherVars>>

\* Step 3: wait for the select link of selected_jx0404id and click it.  The
\* parsed table is dead from here.
select_click ==
    /\ op = "select_course" /\ pc = "s3"
    /\ \E link \in {"found", "timeout", "click_raises"} :
          IF link = "found"
          THEN SelectGoesOn("s5", [sel EXCEPT !.clicked = TRUE, !.table = NoTable])
          ELSE SelectReturns("False", "s3", [sel EXCEPT !.table = NoTable])
    /\ UNCHANGED <<op, attempt, outcome, result, current_url, fetched, response, lg, cap, otherVars>>

\* Steps 5 and 6: find the captcha form, solve the captcha, fill it in and
\* submit.  The choice of the class is dead from here.
select_captcha ==
    /\ op = "select_course" /\ pc = "s5"
    /\ \E ui \in CaptchaForms :
          LET step == CaptchaStep(ui)
              locals == [sel EXCEPT !.best_class = 0,
                                    !.selected_jx0404id = sel.jx0404id,
                                    !.js_function = "xsxkFun",
                                    !.submitted = step.submitted]
          IN IF step.ret = "False" THEN SelectReturns("False", "s5", locals)
             ELSE SelectGoesOn("s7", locals)
    /\ UNCHANGED <<op, attempt, outcome, result, current_url, fetched, response, lg, cap, otherVars>>

\* The alerts captured and the final page content.
select_read_result ==
    /\ op = "select_course" /\ pc = "s7"
    /\ \E alerts \in SeqsUpTo(Texts, MaxAlerts), content \in Texts :
          LET locals == [sel EXCEPT !.alert_messages = alerts,
                                    !.final_content = content]
              verdict == ReadResult(alerts, content)
          IN IF verdict # "None" THEN SelectReturns(verdict, "s7", locals)
             ELSE SelectGoesOn("deep", locals)
    /\ UNCHANGED <<op, attempt, outcome, result, current_url, fetched, response, lg, cap, otherVars>>

\* The deeper check: the title, the re-fetched course list, the redirects.
select_deep_check ==
    /\ op = "select_course" /\ pc = "deep"
    /\ \E title \in Texts \cup {NoText}, flow \in FetchFlows,
          redirected \in SeqsUpTo(Texts, MaxScripts),
          exc \in {"none", "at_parse", "at_redirect"} :
          LET shown == IF exc = "at_parse" THEN NoText ELSE title
              seen == IF exc = "none" THEN redirected ELSE <<>>
          IN SelectReturns(DeepCheck(sel.final_content, title, Fetch(flow, NoHtml),
                                     redirected, exc, course_id),
                           "deep",
                           [sel EXCEPT !.title = shown, !.redirected = seen])
    /\ UNCHANGED <<op, attempt, outcome, result, current_url, fetched, response, lg, cap, otherVars>>

(***************************************************************************)
(* _retry_on_auth_error, after the wrapped function has run: the auth      *)
(* check on the page's URL, _refresh_session and the next attempt, or the  *)
(* end of the call.  _refresh_session only navigates to login_url; what    *)
(* the page shows afterwards is the site's answer.                         *)
(***************************************************************************)
NextAttempt ==
    /\ attempt' = attempt + 1
    /\ pc' = "func"
    /\ outcome' = outcome
    /\ result' = result
    /\ funcRes' = NoRes
    /\ fetched' = NoFetched
    /\ response' = NoResponse
    /\ sel' = SelInit(sel.jx0404id)

Raise ==
    /\ attempt' = attempt
    /\ pc' = "done"
    /\ outcome' = "raised"
    /\ result' = result
    /\ UNCHANGED <<funcRes, fetched, response, sel>>

Return ==
    /\ attempt' = attempt
    /\ pc' = "done"
    /\ outcome' = "returned"
    /\ result' = funcRes.val
    /\ UNCHANGED <<funcRes, fetched, response, sel>>

retry_on_auth_error ==
    /\ pc = "auth"
    /\ IF funcRes.kind = "exc"
       THEN /\ current_url' = current_url
            /\ IF attempt = retry_count - 1 THEN Raise ELSE NextAttempt
       ELSE \E url \in Urls :
              /\ current_url' = url
              /\ IF CheckAuthStatus(url) THEN Return
                 ELSE IF attempt < retry_count - 1 THEN NextAttempt
                 ELSE Raise
    /\ UNCHANGED <<op, lg, cap, otherVars>>

(***************************************************************************)
(* login.                                                                  *)
(***************************************************************************)
\* The await at which an exception is raised, if any.
LoginFailures == {"none", "goto", "fill", "click", "title", "save_cookies"}

\* A test that only looks for None.
IsNone(code) == code = "None"

\* Python: not captcha_code
Falsy(code) == code \in {"None", ""}

LoginState(captcha_element, captcha_code, filled, submitted, auth, saved, raised, ret) ==
    [lg |-> [captcha_element |-> captcha_element, captcha_code |-> captcha_code,
             filled |-> filled, submitted |-> submitted, auth_status |-> auth,
             cookies_saved |-> saved, raised |-> raised],
     ret |-> ret]

\* What login does and returns: the page has a verifyCode input or not,
\* the code given, the URL after the submit, the failing await.  Filling
\* the verifyCode input of a page that has none raises.  filled: the
\* credentials were filled in; raised: the await whose exception was caught.
Login(captcha_element, captcha_code, url, fail) ==
    LET state(filled, submitted, auth, saved, raised, ret) ==
            LoginState(captcha_element, captcha_code, filled, submitted,
                       auth, saved, raised, ret)
    IN IF fail = "goto" THEN state(FALSE, FALSE, FALSE, FALSE, "goto", "False")
       ELSE IF captcha_element /\ Falsy(captcha_code)
            THEN state(FALSE, FALSE, FALSE, FALSE, "none", "False")
       ELSE IF fail = "fill" THEN state(FALSE, FALSE, FALSE, FALSE, "fill", "False")
       ELSE IF ~Falsy(captcha_code) /\ ~captcha_element
            THEN state(TRUE, FALSE, FALSE, FALSE, "fill_verifyCode", "False")
       ELSE IF fail = "click" THEN state(TRUE, FALSE, FALSE, FALSE, "click", "False")
       ELSE IF fail = "title" THEN state(TRUE, TRUE, FALSE, FALSE, "title", "False")
       ELSE IF ~CheckAuthStatus(url)
            THEN state(TRUE, TRUE, FALSE, FALSE, "none", "False")
       ELSE IF fail = "save_cookies"
            THEN state(TRUE, TRUE, TRUE, FALSE, "save_cookies", "False")
       ELSE state(TRUE, TRUE, TRUE, TRUE, "none", "True")

login ==
    /\ Callable
    /\ \E captcha_element \in BOOLEAN, captcha_code \in {"None", "", "ab12"},
          url \in Urls \cup {login_url}, fail \in LoginFailures :
          LET r == Login(captcha_element, captcha_code, url, fail)
          IN /\ lg' = r.lg
             /\ result' = r.ret
             /\ current_url' = IF r.lg.submitted /\ fail # "title"
                               THEN url ELSE "None"
    /\ op' = "login"
    /\ pc' = "done"
    /\ outcome' = "returned"
    /\ attempt' = 0
    /\ funcRes' = NoRes
    /\ fetched' = NoFetched
    /\ response' = NoResponse
    /\ sel' = SelInit(0)
    /\ UNCHANGED <<cap, otherVars>>

Next ==
    \/ login
    \/ fetch_courses
    \/ fetch_attempt
    \/ check_course_availability
    \/ check_attempt
    \/ select_course
    \/ select_check_enrolled
    \/ select_skip_if_enrolled
    \/ select_choose_class
    \/ select_click
    \/ select_captcha
    \/ select_read_result
    \/ select_deep_check
    \/ retry_on_auth_error

\* No CaptchaSolverAgent call is followed in Spec.
CapIdle == [pc |-> "none", DDDDOCR_AVAILABLE |-> FALSE]

Init == BrowserInit /\ cap = CapIdle /\ OtherInit

Spec == Init /\ [][Next]_vars

(***************************************************************************)
(* CaptchaSolverAgent.  A text is a sequence of characters; a confidence   *)
(* is written in hundredths (0.95 is 95).                                  *)
(***************************************************************************)
confidence_processed == 95

confidence_original == 80

\* A threshold that rejects the result of the original image.
confidence_threshold_strict == 40 + 40

confidence_threshold == 50

\* What model.classification() may give: an exception, None, or a text.
OcrAnswers ==
    [kind : {"raise", "None"}, text : {<<>>}]
    \cup [kind : {"str"}, text : SeqsUpTo({" ", "a"}, MaxLen)]

\* Python: text.strip()
RECURSIVE Strip(_)
Strip(text) ==
    IF text = <<>> THEN <<>>
    ELSE IF Head(text) = " " THEN Strip(Tail(text))
    ELSE IF text[Len(text)] = " " THEN Strip(SubSeq(text, 1, Len(text) - 1))
    ELSE text

\* A test that forgets to strip: result and len(result) > 0
UsableUnstripped(answer) == answer.kind = "str" /\ Len(answer.text) > 0

\* result and len(result.strip()) > 0, with no exception before it
Usable(answer) == answer.kind = "str" /\ Len(Strip(answer.text)) > 0

\* __init__ that keeps the requested mode when no model could be loaded.
InitModelKeepsMode(requested, available, init_ok) ==
    IF requested = "ai" /\ available /\ init_ok
    THEN [mode |-> "ai", model |-> "DdddOcr"]
    ELSE [mode |-> requested, model |-> "None"]

\* __init__ and _init_model: the mode and the model of the new object.
InitModel(requested, available, init_ok) ==
    IF requested = "ai"
    THEN IF available
         THEN IF init_ok THEN [mode |-> "ai", model |-> "DdddOcr"]
              ELSE [mode |-> "manual", model |-> "None"]
         ELSE [mode |-> "manual", model |-> "None"]
    ELSE IF requested = "manual" THEN [mode |-> "manual", model |-> "None"]
    ELSE [mode |-> "manual", model |-> "None"]

\* A recognize_text that tries the original image before the preprocessed.
RecognizeTextOriginalFirst(mode, model, preprocess_ok, processed, original) ==
    IF mode = "ai" /\ model # "None"
    THEN IF ~preprocess_ok
         THEN [result |-> [code |-> <<>>, confidence |-> 0, error |-> "preprocess"],
               calls |-> <<"preprocess_image">>]
         ELSE IF Usable(original)
         THEN [result |-> [code |-> Strip(original.text),
                           confidence |-> confidence_original],
               calls |-> <<"preprocess_image", "classification(original)">>]
         ELSE IF Usable(processed)
         THEN [result |-> [code |-> Strip(processed.text),
                           confidence |-> confidence_processed],
               calls |-> <<"preprocess_image", "classification(original)",
                           "classification(processed)">>]
         ELSE [result |-> [code |-> <<>>, confidence |-> 0,
                           manual_input_required |-> TRUE],
               calls |-> <<"preprocess_image", "classification(original)",
                           "classification(processed)">>]
    ELSE [result |-> [code |-> <<>>, confidence |-> 0,
                      manual_input_required |-> TRUE],
          calls |-> <<>>]

\* recognize_text: the dict it returns and the calls it makes, given whether
\* preprocess_image succeeds and what the model answers for the
\* preprocessed and for the original image.
RecognizeText(mode, model, preprocess_ok, processed, original) ==
    IF mode = "ai" /\ model # "None"
    THEN IF ~preprocess_ok
         THEN [result |-> [code |-> <<>>, confidence |-> 0, error |-> "preprocess"],
               calls |-> <<"preprocess_image">>]
         ELSE IF Usable(processed)
         THEN [result |-> [code |-> Strip(processed.text),
                           confidence |-> confidence_processed],
               calls |-> <<"preprocess_image", "classification(processed)">>]
         ELSE IF Usable(original)
         THEN [result |-> [code |-> Strip(original.text),
                           confidence |-> confidence_original],
               calls |-> <<"preprocess_image", "classification(processed)",
                           "classification(original)">>]
         ELSE [result |-> [code |-> <<>>, confidence |-> 0,
                           manual_input_required |-> TRUE],
               calls |-> <<"preprocess_image", "classification(processed)",
                           "classification(original)">>]
    ELSE [result |-> [code |-> <<>>, confidence |-> 0,
                      manual_input_required |-> TRUE],
          calls |-> <<>>]

\* What input() may give to get_manual_input: an exception or EOF, or a line.
ManualInputs ==
    [kind : {"raise"}, text : {<<>>}]
    \cup [kind : {"str"}, text : SeqsUpTo({" ", "a"}, MaxLen)]

\* get_manual_input: the stripped line, "" when there is none.
GetManualInput(line) == IF line.kind = "str" THEN Strip(line.text) ELSE <<>>

\* result.get("code") and result.get("confidence", 0) > 0.5
Accepted(res) == res.code # <<>> /\ res.confidence > confidence_threshold

\* solve_captcha: the code it returns and the calls it makes.
SolveCaptcha(recognized, manual_fallback, line) ==
    IF Accepted(recognized.result)
    THEN [ret |-> recognized.result.code,
          calls |-> <<"save_processed_image", "recognize_text">> \o recognized.calls]
    ELSE IF manual_fallback
    THEN [ret |-> GetManualInput(line),
          calls |-> <<"save_processed_image", "recognize_text">> \o recognized.calls
                      \o <<"get_manual_input">>]
    ELSE [ret |-> <<>>,
          calls |-> <<"save_processed_image", "recognize_text">> \o recognized.calls]

RequestedModes == {"ai", "manual", "paddle", "None"}

\* CaptchaSolverAgent(mode=requested)
construct ==
    /\ cap.pc = "none"
    /\ \E requested \in RequestedModes, init_ok \in BOOLEAN :
          LET m == InitModel(requested, cap.DDDDOCR_AVAILABLE, init_ok)
          IN cap' = [pc |-> "constructed",
                     DDDDOCR_AVAILABLE |-> cap.DDDDOCR_AVAILABLE,
                     requested |-> requested, init_ok |-> init_ok,
                     mode |-> m.mode, model |-> m.model]
    /\ UNCHANGED <<browserVars, otherVars>>

\* The object's fields, which no call changes.
Agent(c) == [DDDDOCR_AVAILABLE |-> c.DDDDOCR_AVAILABLE, requested |-> c.requested,
             init_ok |-> c.init_ok, mode |-> c.mode, model |-> c.model]

\* The answers a call obtained: None for a call it did not make.
Asked(calls, name, answer) ==
    IF \E i \in 1..Len(calls) : calls[i] = name THEN answer
    ELSE [kind |-> "unasked", text |-> <<>>]

recognize_text ==
    /\ cap.pc = "constructed"
    /\ \E preprocess_ok \in BOOLEAN, processed \in OcrAnswers, original \in OcrAnswers :
          LET r == RecognizeText(cap.mode, cap.model, preprocess_ok, processed, original)
          IN cap' = [pc |-> "recognized", agent |-> Agent(cap),
                     mode |-> cap.mode, model |-> cap.model,
                     preprocessed |-> IF r.calls = <<>> THEN "unasked"
                                      ELSE IF preprocess_ok THEN "bytes" ELSE "None",
                     processed |-> Asked(r.calls, "classification(processed)", processed),
                     original |-> Asked(r.calls, "classification(original)", original),
                     result |-> r.result, calls |-> r.calls]
    /\ UNCHANGED <<browserVars, otherVars>>

solve_captcha ==
    /\ cap.pc = "constructed"
    /\ \E preprocess_ok \in BOOLEAN, processed \in OcrAnswers, original \in OcrAnswers,
          manual_fallback \in BOOLEAN, line \in ManualInputs :
          LET r == RecognizeText(cap.mode, cap.model, preprocess_ok, processed, original)
              s == SolveCaptcha(r, manual_fallback, line)
          IN cap' = [pc |-> "solved", agent |-> Agent(cap),
                     mode |-> cap.mode, model |-> cap.model,
                     result |-> r.result, calls |-> s.calls,
                     manual_fallback |-> manual_fallback,
                     line |-> Asked(s.calls, "get_manual_input", line),
                     ret |-> s.ret]
    /\ UNCHANGED <<browserVars, otherVars>>

NextCaptcha ==
    \/ construct
    \/ recognize_text
    \/ solve_captcha

\* DDDDOCR_AVAILABLE is what the import of the module gave.
InitCaptcha ==
    /\ BrowserInit
    /\ cap \in {[pc |-> "none", DDDDOCR_AVAILABLE |-> a] : a \in BOOLEAN}
    /\ OtherInit

SpecCaptcha == InitCaptcha /\ [][NextCaptcha]_vars

(***************************************************************************)
(* DataManagerAgent: check_time_conflicts and save_courses.                *)
(***************************************************************************)
\* _time_to_minutes: hour * 60 + minute, 0 when the string does not parse.
TimeToMinutes(time_str) ==
    CASE time_str = "09:00" -> 9 * 60 + 0
      [] time_str = "10:00" -> 10 * 60 + 0
      [] time_str = "11:00" -> 11 * 60 + 0
      [] OTHER -> 0

\* The schedules given to check_time_conflicts: lessons of one or two
\* hours, one on another day, one that ends when it starts, one whose
\* start_time does not parse.
ScheduleKinds ==
    [day_of_week : {1}, start_time : {"09:00"}, end_time : {"10:00", "11:00"}]
    \cup [day_of_week : {2}, start_time : {"09:00"}, end_time : {"10:00"}]
    \cup [day_of_week : {1}, start_time : {"10:00"}, end_time : {"10:00", "11:00"}]
    \cup [day_of_week : {1}, start_time : {"bad"}, end_time : {"10:00"}]

\* An overlap test that also reports lessons that only touch.
SchedulesConflictTouching(schedule1, schedule2) ==
    IF schedule1.day_of_week # schedule2.day_of_week THEN FALSE
    ELSE ~(TimeToMinutes(schedule1.end_time) < TimeToMinutes(schedule2.start_time)
           \/ TimeToMinutes(schedule2.end_time) < TimeToMinutes(schedule1.start_time))

\* _schedules_conflict
SchedulesConflict(schedule1, schedule2) ==
    IF schedule1.day_of_week # schedule2.day_of_week THEN FALSE
    ELSE ~(TimeToMinutes(schedule1.end_time) <= TimeToMinutes(schedule2.start_time)
           \/ TimeToMinutes(schedule2.end_time) <= TimeToMinutes(schedule1.start_time))

\* The inner loop of check_time_conflicts, from existing_schedules[j] on.
RECURSIVE ConflictsWith(_, _, _)
ConflictsWith(new_schedule, existing_schedules, j) ==
    IF j > Len(existing_schedules) THEN <<>>
    ELSE (IF SchedulesConflict(new_schedule, existing_schedules[j])
          THEN <<[new_course |-> new_schedule,
                  existing_course |-> existing_schedules[j],
                  conflict_type |-> "time_overlap"]>>
          ELSE <<>>)
         \o ConflictsWith(new_schedule, existing_schedules, j + 1)

\* check_time_conflicts: the outer loop, from course_schedules[i] on.
RECURSIVE CheckTimeConflicts(_, _, _)
CheckTimeConflicts(course_schedules, existing_schedules, i) ==
    IF i > Len(course_schedules) THEN <<>>
    ELSE ConflictsWith(course_schedules[i], existing_schedules, 1)
         \o CheckTimeConflicts(course_schedules, existing_schedules, i + 1)

\* A course of courses_data: its id and its name, "None" for a name that is
\* None, which the NOT NULL column rejects.
CourseKinds == [id : {"k1", "k2"}, name : {"A", "B", "None"}]

\* courses_data as _parse_courses builds it: the regular and the retake
\* list, and 'all', which holds the courses of both.
CoursesData ==
    {[regular |-> reg, retake |-> ret, all |-> reg \o ret] :
        reg \in SeqsUpTo(CourseKinds, MaxRegular),
        ret \in SeqsUpTo(CourseKinds, MaxRetake)}

\* The courses the loops of save_courses reach: those of every list but
\* 'all'.
RECURSIVE CoursesToSave(_)
CoursesToSave(items) ==
    IF items = <<>> THEN <<>>
    ELSE (IF Head(items)[1] = "all" THEN <<>> ELSE Head(items)[2])
         \o CoursesToSave(Tail(items))

\* The inserts of save_courses from courses[k] on: the table, total_saved,
\* the ids written and whether an exception ended the loop.
RECURSIVE SaveFrom(_, _, _, _, _)
SaveFrom(table, courses, k, total_saved, written) ==
    IF k > Len(courses)
    THEN [courses |-> table, total_saved |-> total_saved, written |-> written,
          raised |-> FALSE]
    ELSE IF courses[k].name = "None"
    THEN [courses |-> table, total_saved |-> total_saved, written |-> written,
          raised |-> TRUE]
    ELSE SaveFrom({r \in table : r.id # courses[k].id} \cup {courses[k]},
                  courses, k + 1, total_saved + 1,
                  written \cup {courses[k].id})

\* save_courses: the table afterwards and the value returned; an exception
\* is caught and 0 returned, the rows written before it staying in the
\* connection.
SaveCourses(table, courses_data) ==
    LET items == << <<"regular", courses_data.regular>>,
                     <<"retake", courses_data.retake>>,
                     <<"all", courses_data.all>> >>
        done == SaveFrom(table, CoursesToSave(items), 1, 0, {})
    IN [courses |-> done.courses, written |-> done.written,
        raised |-> done.raised,
        ret |-> IF done.raised THEN 0 ELSE done.total_saved]

\* The courses table of the database file, which outlives the agent: at
\* most one row per id.
CourseTables ==
    {t \in SUBSET [id : {"k1", "k2"}, name : {"A", "B"}] :
        \A r1, r2 \in t : r1.id = r2.id => r1 = r2}

check_time_conflicts ==
    /\ dm.pc = "ready"
    /\ \E course_schedules \in SeqsUpTo(ScheduleKinds, MaxNewSchedules),
          existing_schedules \in SeqsUpTo(ScheduleKinds, MaxExistingSchedules) :
          dm' = [pc |-> "checked", courses |-> dm.courses,
                 course_schedules |-> course_schedules,
                 existing_schedules |-> existing_schedules,
                 conflicts |-> CheckTimeConflicts(course_schedules,
                                                  existing_schedules, 1)]
    /\ UNCHANGED <<browserVars, cap, cli, web, sch, img>>

save_courses ==
    /\ dm.pc = "ready"
    /\ \E courses_data \in CoursesData :
          LET r == SaveCourses(dm.courses, courses_data)
          IN dm' = [pc |-> "saved", courses |-> r.courses, before |-> dm.courses,
                    courses_data |-> courses_data, written |-> r.written,
                    raised |-> r.raised, ret |-> r.ret]
    /\ UNCHANGED <<browserVars, cap, cli, web, sch, img>>

NextData ==
    \/ check_time_conflicts
    \/ save_courses

\* DataManagerAgent(db_path): the connection to the database, whose tables
\* are created if they do not exist.  A behaviour follows one call.
InitData ==
    /\ BrowserInit /\ cap = CapIdle
    /\ dm \in {[pc |-> "ready", courses |-> table] : table \in CourseTables}
    /\ cli = Idle /\ web = Idle /\ sch = Idle /\ img = Idle

SpecData == InitData /\ [][NextData]_vars

(***************************************************************************)
(* CLIInterfaceAgent._handle_auto_select_all: one run of the command.      *)
(***************************************************************************)
\* The arguments of the command the loop reads; --max-courses 0 sets no
\* limit.
AutoSelectArgs ==
    [dry_run : BOOLEAN, max_courses : 0..MaxLimit, skip_retakes : BOOLEAN]

\* A limit test that lets one more course through.
LimitReachedLate(args, successful_courses) ==
    ~args.dry_run /\ args.max_courses > 0 /\ successful_courses > args.max_courses

\* not args.dry_run and args.max_courses > 0 and
\* successful_courses >= args.max_courses
LimitReached(args, successful_courses) ==
    ~args.dry_run /\ args.max_courses > 0 /\ successful_courses >= args.max_courses

\* A dry run that is honoured only when no limit is set.
DryRunUnlessLimited(args) == args.dry_run /\ args.max_courses = 0

\* if args.dry_run
DryRun(args) == args.dry_run

\* The run before its loop: the statistics, and what the run has done so
\* far: the calls of check_course_availability and of select_course, the
\* select_course calls that returned True, the enrollment records written,
\* and the calls made after max_courses courses had been selected.
CliStart(args, courses) ==
    [pc |-> "loop", args |-> args, courses |-> courses, idx |-> 1,
     successful_courses |-> 0,
     check_calls |-> 0, select_calls |-> 0, selected |-> 0, records |-> 0,
     late_calls |-> 0, stopped |-> FALSE]

\* One more call of the browser agent by this run.
Late(c) ==
    IF c.args.max_courses > 0 /\ c.selected >= c.args.max_courses THEN 1 ELSE 0

\* The body of the loop for courses[idx]; availability and success are
\* the answers of the browser agent, read only if the call is made.
ProcessCourse(c, availability, success) ==
    LET course == c.courses[c.idx]
        next == [c EXCEPT !.idx = c.idx + 1]
        checked == [next EXCEPT !.check_calls = c.check_calls + 1,
                                !.late_calls = c.late_calls + Late(c)]
        tried == [checked EXCEPT !.select_calls = c.select_calls + 1,
                                 !.late_calls = checked.late_calls + Late(c)]
    IN IF course = "bad" THEN next
       ELSE IF c.args.skip_retakes /\ course = "retake" THEN next
       ELSE IF LimitReached(c.args, c.successful_courses)
            THEN [c EXCEPT !.pc = "done", !.stopped = TRUE]
       ELSE IF availability = "raises" THEN checked
       ELSE IF availability = "no_seats" THEN checked
       ELSE IF DryRun(c.args)
            THEN [checked EXCEPT !.successful_courses = c.successful_courses + 1]
       ELSE IF success = "raises" THEN tried
       ELSE IF success = "True"
            THEN [tried EXCEPT !.successful_courses = c.successful_courses + 1,
                               !.selected = c.selected + 1,
                               !.records = c.records + 1]
       ELSE [tried EXCEPT !.records = c.records + 1]

\* The command starts: the login and the course list may end it before
\* the loop (no credentials, login failed, no courses).  Of each course
\* left after filtering, its details say whether it is a retake, or do
\* not parse ("bad": json.loads raises).
auto_select_all ==
    /\ cli.pc = "start"
    /\ \E args \in AutoSelectArgs, early \in BOOLEAN,
          courses \in SeqsUpTo({"regular", "retake", "bad"}, MaxCliCourses) :
          cli' = IF early \/ courses = <<>>
                 THEN [CliStart(args, courses) EXCEPT !.pc = "done"]
                 ELSE CliStart(args, courses)
    /\ UNCHANGED <<browserVars, cap, dm, web, sch, img>>

\* check_course_availability raises, or says that the course has enough
\* seats (available and remaining >= min_slots) or not; select_course
\* raises or returns True or False.
process_course ==
    /\ cli.pc = "loop" /\ cli.idx <= Len(cli.courses)
    /\ \E availability \in {"raises", "seats", "no_seats"},
          success \in {"raises", "True", "False"} :
          cli' = ProcessCourse(cli, availability, success)
    /\ UNCHANGED <<browserVars, cap, dm, web, sch, img>>

\* The loop is over: the tables are printed and the browser stopped.
finish_auto_select ==
    /\ cli.pc = "loop" /\ cli.idx > Len(cli.courses)
    /\ cli' = [cli EXCEPT !.pc = "done"]
    /\ UNCHANGED <<browserVars, cap, dm, web, sch, img>>

NextCli ==
    \/ auto_select_all
    \/ process_course
    \/ finish_auto_select

InitCli ==
    /\ BrowserInit /\ cap = CapIdle
    /\ cli = [pc |-> "start"]
    /\ dm = Idle /\ web = Idle /\ sch = Idle /\ img = Idle

SpecCli == InitCli /\ [][NextCli]_vars

(***************************************************************************)
(* The web application (app.py): the three API routes and the jobs they    *)
(* hand to the thread pool.                                                *)
(***************************************************************************)
\* executor = ThreadPoolExecutor(max_workers=10)
max_workers == 10

Users == {"u1", "u2"}

\* task_manager.create_task: a row with status 'pending'; its id is its
\* position.
CreateTask(tasks, user_id, cid) ==
    Append(tasks, [user_id |-> user_id, course_id |-> cid,
                   status |-> "pending"])

\* task_manager.update_task_status
UpdateTaskStatus(tasks, task_id, status) ==
    [tasks EXCEPT ![task_id].status = status]

\* executor.submit(run_async_task(coro)): the job waits for a worker.
Submit(jobs, kind, user_id, task_id) ==
    Append(jobs, [kind |-> kind, user_id |-> user_id, task_id |-> task_id,
                  state |-> "queued"])

\* The answer of a route: the HTTP status, the request it answers, and the
\* numbers of task rows and of submitted jobs before the request.
Answer(w, endpoint, session_user, body, status) ==
    [endpoint |-> endpoint, session_user |-> session_user, body |-> body,
     status |-> status, tasks_before |-> Len(w.tasks),
     jobs_before |-> Len(w.jobs)]

NoBody == [is_object |-> FALSE, course_id |-> "None"]

\* api_grab_course; data.get on a body that is no object raises
\* AttributeError, which Flask answers with 500.
ApiGrabCourse(w, session_user, body) ==
    IF session_user = "none"
    THEN [w EXCEPT !.last = Answer(w, "grab_course", session_user, body, 401)]
    ELSE IF ~body.is_object
    THEN [w EXCEPT !.last = Answer(w, "grab_course", session_user, body, 500)]
    ELSE IF body.course_id \in {"None", ""}
    THEN [w EXCEPT !.last = Answer(w, "grab_course", session_user, body, 400)]
    ELSE IF session_user \notin w.user_sessions
    THEN [w EXCEPT !.last = Answer(w, "grab_course", session_user, body, 400)]
    ELSE [w EXCEPT !.tasks = CreateTask(w.tasks, session_user, body.course_id),
                   !.jobs = Submit(w.jobs, "grab", session_user,
                                   Len(w.tasks) + 1),
                   !.last = Answer(w, "grab_course", session_user, body, 200)]

\* The jobs a worker thread is running.
Running(w) == {i \in 1..Len(w.jobs) : w.jobs[i].state = "running"}

\* session_user is session['user_id'], "none" when the Flask session has
\* none.
api_courses ==
    /\ web.pc = "serving" /\ Len(web.jobs) < MaxJobs
    /\ \E session_user \in Users \cup {"none"} :
          web' = IF session_user = "none"
                 THEN [web EXCEPT
                         !.last = Answer(web, "courses", session_user, NoBody, 401)]
                 ELSE IF session_user \notin web.user_sessions
                 THEN [web EXCEPT
                         !.last = Answer(web, "courses", session_user, NoBody, 400)]
                 ELSE [web EXCEPT
                         !.jobs = Submit(web.jobs, "fetch", session_user, 0),
                         !.last = Answer(web, "courses", session_user, NoBody, 200)]
    /\ UNCHANGED <<browserVars, cap, dm, cli, sch, img>>

\* request.json is a JSON object, whose course_id is absent ("None"),
\* empty or a course id, or another JSON value (null, a list, a number).
api_grab_course ==
    /\ web.pc = "serving" /\ Len(web.jobs) < MaxJobs
    /\ \E session_user \in Users \cup {"none"},
          body \in [is_object : {TRUE}, course_id : {"None", "", "c1"}]
                       \cup {NoBody} :
          web' = ApiGrabCourse(web, session_user, body)
    /\ UNCHANGED <<browserVars, cap, dm, cli, sch, img>>

api_tasks ==
    /\ web.pc = "serving"
    /\ \E session_user \in Users \cup {"none"} :
          web' = [web EXCEPT
                    !.last = Answer(web, "tasks", session_user, NoBody,
                                    IF session_user = "none" THEN 401 ELSE 200)]
    /\ UNCHANGED <<browserVars, cap, dm, cli, sch, img>>

\* A free worker of the pool takes a queued job: run() starts a new event
\* loop and the coroutine begins to drive user_sessions[user_id]
\* ['browser_agent']; a grab first marks its task 'running'.
run_async_task ==
    /\ web.pc = "serving"
    /\ Cardinality(Running(web)) < max_workers
    /\ \E i \in 1..Len(web.jobs) :
          /\ web.jobs[i].state = "queued"
          /\ \A j \in 1..(i - 1) : web.jobs[j].state # "queued"
          /\ web' = [web EXCEPT
                !.jobs[i].state = "running",
                !.tasks = IF web.jobs[i].kind = "grab"
                          THEN UpdateTaskStatus(web.tasks, web.jobs[i].task_id,
                                                "running")
                          ELSE web.tasks]
    /\ UNCHANGED <<browserVars, cap, dm, cli, sch, img>>

\* The coroutine of a running job ends: a grab leaves its task 'success'
\* or 'failed'.
job_done ==
    /\ web.pc = "serving"
    /\ \E i \in Running(web), status \in {"success", "failed"} :
          web' = [web EXCEPT
                !.jobs[i].state = "done",
                !.tasks = IF web.jobs[i].kind = "grab"
                          THEN UpdateTaskStatus(web.tasks, web.jobs[i].task_id,
                                                status)
                          ELSE web.tasks]
    /\ UNCHANGED <<browserVars, cap, dm, cli, sch, img>>

NextWeb ==
    \/ api_courses
    \/ api_grab_course
    \/ api_tasks
    \/ run_async_task
    \/ job_done

InitWeb ==
    /\ BrowserInit /\ cap = CapIdle
    /\ web \in {[pc |-> "serving", user_sessions |-> sessions,
                 tasks |-> <<>>, jobs |-> <<>>, last |-> [status |-> 0]] :
                    sessions \in SUBSET Users}
    /\ dm = Idle /\ cli = Idle /\ sch = Idle /\ img = Idle

SpecWeb == InitWeb /\ [][NextWeb]_vars

(***************************************************************************)
(* SchedulerAgent: the auto-enrollment jobs.  The job auto_enroll_<c> is   *)
(* named by its course c.                                                  *)
(***************************************************************************)
SchedCourses == {"c1", "c2"}

\* A remove_job that forgets the registry.
RemoveJobFromSchedulerOnly(s, c) ==
    IF c \in s.jobs /\ c \in s.scheduler
    THEN [s EXCEPT !.scheduler = s.scheduler \ {c}]
    ELSE s

\* remove_job: scheduler.remove_job raises JobLookupError for a job the
\* scheduler does not hold, which remove_job catches before the del.
RemoveJob(s, c) ==
    IF c \in s.jobs /\ c \in s.scheduler
    THEN [s EXCEPT !.scheduler = s.scheduler \ {c}, !.jobs = s.jobs \ {c}]
    ELSE s

\* _send_notification: the channels the message goes out on.
SendNotification(s) ==
    IF ~s.config.notifications THEN {}
    ELSE (IF s.config.console THEN {"console"} ELSE {})
         \cup (IF "notification" \in s.callbacks THEN {"callback"} ELSE {})

\* The loop of add_auto_enrollment_job from course_ids[k] on; removing a
\* job the scheduler does not hold raises out of the method.
RECURSIVE AddJobsFrom(_, _, _)
AddJobsFrom(s, course_ids, k) ==
    IF k > Len(course_ids) THEN s
    ELSE LET c == course_ids[k]
         IN IF c \in s.jobs /\ c \notin s.scheduler THEN s
            ELSE AddJobsFrom([s EXCEPT !.scheduler = s.scheduler \cup {c},
                                       !.jobs = s.jobs \cup {c}],
                             course_ids, k + 1)

\* _auto_enroll_course once the callback has answered.
AutoEnrollReturns(s, c, success) ==
    LET removed == IF success = "True" THEN RemoveJob(s, c) ELSE s
    IN [removed EXCEPT
            !.running = s.running \ {c},
            !.last = [course |-> c, success |-> success,
                      sent |-> IF success = "True"
                               THEN SendNotification(s) ELSE {}]]

add_auto_enrollment_job ==
    /\ sch.pc = "started"
    /\ \E course_ids \in SeqsUpTo(SchedCourses, MaxCourseIds) :
          sch' = IF ~sch.config.auto_enrollment THEN sch
                 ELSE AddJobsFrom(sch, course_ids, 1)
    /\ UNCHANGED <<browserVars, cap, dm, cli, web, img>>

remove_job ==
    /\ sch.pc = "started"
    /\ \E c \in SchedCourses : sch' = RemoveJob(sch, c)
    /\ UNCHANGED <<browserVars, cap, dm, cli, web, img>>

\* The interval of job c elapses (max_instances=1: not while an earlier
\* firing of c is still running).  Without a registered callback the
\* firing only prints a warning.
auto_enroll_course_fires ==
    /\ sch.pc = "started"
    /\ \E c \in sch.scheduler \ sch.running :
          sch' = IF "auto_enroll" \in sch.callbacks
                 THEN [sch EXCEPT !.running = sch.running \cup {c}]
                 ELSE sch
    /\ UNCHANGED <<browserVars, cap, dm, cli, web, img>>

auto_enroll_course_returns ==
    /\ sch.pc = "started"
    /\ \E c \in sch.running, success \in {"True", "False", "raises"} :
          sch' = AutoEnrollReturns(sch, c, success)
    /\ UNCHANGED <<browserVars, cap, dm, cli, web, img>>

NextSched ==
    \/ add_auto_enrollment_job
    \/ remove_job
    \/ auto_enroll_course_fires
    \/ auto_enroll_course_returns

\* The configuration read by the jobs (auto_enrollment.enabled,
\* notifications.enabled, "console" among notifications.methods) and the
\* callbacks register_callback has stored.
InitSched ==
    /\ BrowserInit /\ cap = CapIdle
    /\ sch \in {[pc |-> "started", config |-> config,
                 callbacks |-> callbacks,
                 jobs |-> {}, scheduler |-> {}, running |-> {},
                 last |-> [course |-> "none", success |-> "none",
                           sent |-> {}]] :
                    config \in [auto_enrollment : BOOLEAN,
                                notifications : BOOLEAN, console : BOOLEAN],
                    callbacks \in SUBSET {"auto_enroll", "notification"}}
    /\ dm = Idle /\ cli = Idle /\ web = Idle /\ img = Idle

SpecSched == InitSched /\ [][NextSched]_vars

(***************************************************************************)
(* BrowserAgent.get_captcha_image: where the captcha image is looked for.  *)
(***************************************************************************)
\* captcha_selectors, in the order of the list: its first and its last
\* entry.
captcha_selectors == <<"yzm", "title">>

\* iframe_selectors, in the order of the list: its first two entries.
iframe_selectors == <<"xsxk", "mainFrame">>

Selectors == {captcha_selectors[k] : k \in 1..Len(captcha_selectors)}

Iframes == {iframe_selectors[k] : k \in 1..Len(iframe_selectors)}

\* What a page or frame gives for every selector: query_selector raises,
\* finds nothing, or finds an element that is_visible says is hidden or
\* visible.
Documents == [Selectors -> {"raises", "none", "hidden", "visible"}]

\* A document without any img.
Blank == [s \in Selectors |-> "none"]

\* captcha_element = None
NoElement == [context |-> "none", selector |-> "none", visible |-> FALSE]

\* The loop over captcha_selectors in one document, from selector k on,
\* with captcha_element as the loops before left it: the element the loop
\* leaves in captcha_element, and whether it stopped at a visible one.
RECURSIVE ProbeFrom(_, _, _, _)
ProbeFrom(context, doc, k, captcha_element) ==
    IF k > Len(captcha_selectors)
    THEN [captcha_element |-> captcha_element, found |-> FALSE]
    ELSE LET selector == captcha_selectors[k]
         IN CASE doc[selector] = "raises" ->
                   ProbeFrom(context, doc, k + 1, captcha_element)
              [] doc[selector] = "none" ->
                   ProbeFrom(context, doc, k + 1, NoElement)
              [] doc[selector] = "hidden" ->
                   ProbeFrom(context, doc, k + 1,
                             [context |-> context, selector |-> selector,
                              visible |-> FALSE])
              [] OTHER ->
                   [captcha_element |-> [context |-> context,
                                         selector |-> selector,
                                         visible |-> TRUE],
                    found |-> TRUE]

\* The loop over iframe_selectors from iframe k on.
RECURSIVE ProbeIframesFrom(_, _, _, _)
ProbeIframesFrom(frames, k, captcha_element, probed) ==
    IF k > Len(iframe_selectors)
    THEN [captcha_element |-> captcha_element, found |-> FALSE,
          probed |-> probed]
    ELSE LET name == iframe_selectors[k]
             here == ProbeFrom(name, frames[name].doc, 1, captcha_element)
         IN IF ~frames[name].present
            THEN ProbeIframesFrom(frames, k + 1, captcha_element, probed)
            ELSE IF here.found
            THEN [captcha_element |-> here.captcha_element, found |-> TRUE,
                  probed |-> Append(probed, name)]
            ELSE ProbeIframesFrom(frames, k + 1, here.captcha_element,
                                  Append(probed, name))

\* return await captcha_element.screenshot()
Screenshot(captcha_element, probed) ==
    [kind |-> "image", element |-> captcha_element, probed |-> probed]

\* return None
ReturnNone(probed) ==
    [kind |-> "None", element |-> NoElement, probed |-> probed]

\* get_captcha_image.  The screenshot of an element that was hidden when
\* probed waits for it to become visible: late says whether it does
\* before the timeout, which the outer except turns into None.
GetCaptchaImage(popup, main, frames, late) ==
    LET p == IF popup.open THEN ProbeFrom("popup", popup.doc, 1, NoElement)
             ELSE [captcha_element |-> NoElement, found |-> FALSE]
        afterPopup == IF popup.open THEN <<"popup">> ELSE <<>>
        m == ProbeFrom("main", main, 1, p.captcha_element)
        afterMain == Append(afterPopup, "main")
        f == IF m.captcha_element = NoElement
             THEN ProbeIframesFrom(frames, 1, m.captcha_element, afterMain)
             ELSE [captcha_element |-> m.captcha_element, found |-> FALSE,
                   probed |-> afterMain]
    IN IF p.found THEN Screenshot(p.captcha_element, afterPopup)
       ELSE IF f.found THEN Screenshot(f.captcha_element, f.probed)
       ELSE IF f.captcha_element = NoElement THEN ReturnNone(f.probed)
       ELSE IF f.captcha_element.visible \/ late
            THEN Screenshot(f.captcha_element, f.probed)
       ELSE ReturnNone(f.probed)

get_captcha_image ==
    /\ img.pc = "ready"
    /\ \E late \in BOOLEAN :
          img' = [img EXCEPT
                    !.pc = "returned",
                    !.ret = GetCaptchaImage(img.popup, img.main, img.frames,
                                            late)]
    /\ UNCHANGED <<browserVars, cap, dm, cli, web, sch>>

\* The popup page is pages[-1] when more than one page is open; an iframe
\* of the main page is present with a content frame, or not.
InitImg ==
    /\ BrowserInit /\ cap = CapIdle
    /\ img \in {[pc |-> "ready", popup |-> popup, main |-> main,
                 frames |-> frames, ret |-> ReturnNone(<<>>)] :
                    popup \in {[open |-> FALSE, doc |-> Blank]}
                                 \cup [open : {TRUE}, doc : Documents],
                    main \in Documents,
                    frames \in [Iframes -> {[present |-> FALSE, doc |-> Blank]}
                                    \cup [present : {TRUE}, doc : Documents]]}
    /\ dm = Idle /\ cli = Idle /\ web = Idle /\ sch = Idle

SpecImg == InitImg /\ [][get_captcha_image]_vars

(***************************************************************************)
(* Properties of BrowserAgent, checked under Spec.                         *)
(***************************************************************************)
Wrapped == {"fetch_courses", "check_course_availability", "select_course"}

\* "jsxsd" in url and "login" not in url.lower(), said of the URL itself.
Authenticated(url) == url \in {"/jsxsd/", "/jsxsd/xsxk/xsxk_index"}

\* C1: a call of fetch_courses, check_course_availability or select_course
\* runs its wrapped operation at most 3 times; it returns a value only from
\* an attempt that finished without an exception and left the page
\* authenticated, and it raises only after the third attempt, which like
\* the ones before it raised or left the page unauthenticated.
C1_AtMostThreeAttempts ==
    op \in Wrapped =>
        /\ attempt \in 0..2
        /\ pc = "done" => outcome \in {"returned", "raised"}
        /\ outcome = "returned" =>
              /\ funcRes.kind = "ret"
              /\ Authenticated(current_url)
        /\ outcome = "raised" =>
              /\ attempt = 2
              /\ funcRes.kind = "exc" \/ ~Authenticated(current_url)

\* Three attempts of fetch_courses that each finished and left the page
\* unauthenticated: the call raised.
C1_Witness ==
    /\ op = "fetch_courses" /\ pc = "done" /\ outcome = "raised"
    /\ attempt = 2 /\ funcRes.kind = "ret"

SuccessWord(text) ==
    \E kw \in {<<"cheng", "gong">>, <<"yi", "xuan">>,
               <<"xuan", "ke", "cheng", "gong">>,
               <<"tian", "jia", "cheng", "gong">>} : Contains(text, kw)

FailureWord(text) ==
    \E kw \in alert_failure_keywords \cup error_keywords : Contains(text, kw)

\* The texts _select has read after the submit.
TextsRead(s) ==
    {s.alert_messages[i] : i \in 1..Len(s.alert_messages)}
    \cup {s.final_content, s.title}
    \cup {s.redirected[i] : i \in 1..Len(s.redirected)}

\* The name read from the course page is the name of a row of the enrolled
\* table whose status cell is exactly 选中.
NameEnrolled(s) ==
    /\ s.current_course_name \notin {"None", ""}
    /\ ~s.page.raised /\ s.page.found
    /\ \E i \in 1..Len(s.page.rows) :
          /\ s.page.rows[i].cells >= 10
          /\ s.page.rows[i].status = <<"xuan", "zhong">>
          /\ s.page.rows[i].name = s.current_course_name

\* C2: _select gives True only if the course was found already enrolled, or
\* if after the submit a success keyword was read in an alert, the final
\* content, the title or a redirected content; when the texts it read show
\* neither a success nor a failure keyword it gives False; and the value
\* select_course returns is the value _select gave.
C2_TrueOnlyOnSuccessEvidence ==
    (op = "select_course" /\ pc \in {"auth", "done"} /\ funcRes.kind = "ret") =>
        /\ funcRes.val \in {"True", "False"}
        /\ funcRes.val = "True" =>
              \/ sel.at = "s0" /\ NameEnrolled(sel)
              \/ /\ sel.submitted
                 /\ \E t \in TextsRead(sel) : SuccessWord(t)
        /\ (/\ sel.at \in {"s7", "deep"}
            /\ \A t \in TextsRead(sel) : ~SuccessWord(t) /\ ~FailureWord(t))
              => funcRes.val = "False"
        /\ outcome = "returned" => result = funcRes.val

\* select_course returned True on a success keyword found by the deeper
\* check, the alerts and the final content having shown none.
C2_Witness ==
    /\ op = "select_course" /\ pc = "done" /\ outcome = "returned"
    /\ result = "True" /\ sel.at = "deep" /\ sel.submitted
    /\ ~SuccessWord(sel.final_content)

\* C3: when the name read from the course page is in the enrolled list,
\* _select returns True at step 0, no select link clicked and no captcha
\* form submitted; and a call that returns from step 0 returns True, still
\* with nothing clicked or submitted.
C3_EnrolledIsNotSelectedAgain ==
    [][/\ (op = "select_course" /\ pc = "s0" /\ NameEnrolled(sel)) =>
             /\ pc' = "auth" /\ funcRes' = Ret("True")
             /\ sel'.at = "s0" /\ ~sel'.clicked /\ ~sel'.submitted
       /\ (/\ op = "select_course" /\ pc = "auth" /\ sel.at = "s0"
           /\ pc' = "done" /\ outcome' = "returned") =>
             result' = "True" /\ ~sel'.clicked /\ ~sel'.submitted
      ]_vars

\* select_course returned True from step 0, the enrolled table having two
\* rows.
C3_Witness ==
    /\ op = "select_course" /\ pc = "done" /\ outcome = "returned"
    /\ sel.at = "s0" /\ result = "True" /\ NameEnrolled(sel)
    /\ Len(sel.page.rows) = 2 /\ ~sel.clicked /\ ~sel.submitted

\* The remaining seats a row shows, 0 when the cell is no number.
RemainingShown(r) ==
    IF r.remaining_text = "1" THEN 1 ELSE IF r.remaining_text = "2" THEN 2 ELSE 0

\* A class that can be selected: a valid row with seats left and a select
\* link that parses.
Selectable(r) ==
    /\ r.cells >= 11
    /\ RemainingShown(r) > 0
    /\ r.link \in {"xsxkFun", "xsxkOper"}

\* C4: called without a jx0404id, the class whose link is clicked has seats
\* left and no selectable class has more (the first wins a tie); if no class
\* is selectable _select returns False and clicks nothing.
C4_ClassWithMostSeats ==
    (op = "select_course" /\ sel.jx0404id = 0) =>
        /\ pc = "s3" =>
              /\ sel.best_class \in 1..Len(sel.table.rows)
              /\ Selectable(sel.table.rows[sel.best_class])
              /\ \A j \in 1..Len(sel.table.rows) :
                    Selectable(sel.table.rows[j]) =>
                       /\ RemainingShown(sel.table.rows[j])
                            <= RemainingShown(sel.table.rows[sel.best_class])
                       /\ j < sel.best_class =>
                            RemainingShown(sel.table.rows[j])
                              < RemainingShown(sel.table.rows[sel.best_class])
        /\ (/\ pc = "auth" /\ sel.at = "s2"
            /\ \A j \in 1..Len(sel.table.rows) : ~Selectable(sel.table.rows[j]))
              => funcRes = Ret("False") /\ ~sel.clicked

\* C9: login returns False, the credentials not filled in and the form not
\* submitted, when the page has a verifyCode input and the code is None or
\* empty; it returns True only after a submit that left the page
\* authenticated and with the cookies saved; an exception at any await
\* gives False, and login never raises.
C9_LoginGuards ==
    (op = "login" /\ pc = "done") =>
        /\ outcome = "returned" /\ result \in {"True", "False"}
        /\ (lg.captcha_element /\ lg.captcha_code \in {"None", ""}) =>
              result = "False" /\ ~lg.filled /\ ~lg.submitted
        /\ result = "True" =>
              /\ lg.submitted /\ lg.auth_status /\ lg.cookies_saved
              /\ Authenticated(current_url)
        /\ lg.raised # "none" => result = "False"

\* login returned False at the captcha guard, the code given being empty.
C9_Witness ==
    /\ op = "login" /\ pc = "done" /\ result = "False"
    /\ lg.captcha_element /\ lg.captcha_code = "" /\ ~lg.filled

RECURSIVE SumPositive(_)
SumPositive(classes) ==
    IF classes = <<>> THEN 0
    ELSE (IF Head(classes).remaining > 0 THEN Head(classes).remaining ELSE 0)
           + SumPositive(Tail(classes))

\* The response is not valid JSON or has no non-empty aaData.
NoClassData(resp) ==
    resp.json = "invalid" \/ resp.aaDataIs # "list" \/ resp.aaData = <<>>

\* What _check gave is self-consistent: available exactly when
\* total_remaining > 0, total_remaining the sum of the positive counts of
\* the listed classes, best_class a listed class with the largest count.
SelfConsistent(r) ==
    /\ r.available <=> r.total_remaining > 0
    /\ r.total_remaining = SumPositive(r.classes)
    /\ IF r.classes = <<>> THEN r.best_class = NoneClass
       ELSE /\ \E i \in 1..Len(r.classes) : r.classes[i] = r.best_class
            /\ \A i \in 1..Len(r.classes) :
                  r.classes[i].remaining <= r.best_class.remaining

\* C10: the result of _check is self-consistent, and when the response is
\* not valid JSON or has no non-empty aaData _check gives available False,
\* total_remaining 0, no classes and best_class None.
C10_AvailabilityResult ==
    (op = "check_course_availability" /\ pc \in {"auth", "done"}) =>
        /\ funcRes.kind = "ret" => SelfConsistent(funcRes.val)
        /\ NoClassData(response) =>
              funcRes = Ret([available |-> FALSE, total_remaining |-> 0,
                             classes |-> <<>>, best_class |-> NoneClass])

(***************************************************************************)
(* Properties of CaptchaSolverAgent, checked under SpecCaptcha.            *)
(***************************************************************************)
\* The call was made, and the one named before it, if made, earlier.
Called(calls, name) == \E i \in 1..Len(calls) : calls[i] = name

Before(calls, first, second) ==
    \E i, j \in 1..Len(calls) : i < j /\ calls[i] = first /\ calls[j] = second

\* The classification raised, gave None, or gave empty or whitespace text.
Failed(answer) ==
    \/ answer.kind \in {"raise", "None"}
    \/ answer.kind = "str" /\ \A i \in 1..Len(answer.text) : answer.text[i] = " "

\* code is text without its leading and trailing blanks, and is not empty.
StrippedOf(code, text) ==
    /\ code # <<>>
    /\ code[1] # " " /\ code[Len(code)] # " "
    /\ \E i \in 1..Len(text) :
          /\ i + Len(code) - 1 <= Len(text)
          /\ SubSeq(text, i, i + Len(code) - 1) = code
          /\ \A j \in 1..Len(text) :
                (j < i \/ j > i + Len(code) - 1) => text[j] = " "

Prompted == Called(cap.calls, "get_manual_input")

AutoCode == cap.result.code # <<>> /\ cap.result.confidence > 50

\* C6: solve_captcha asks for manual input if and only if manual_fallback is
\* true and recognize_text did not give a non-empty code with confidence
\* above 0.5, and only after recognize_text has run; with manual_fallback
\* false it never prompts and returns the recognised code or "".
C6_ManualInputOnlyAsFallback ==
    cap.pc = "solved" =>
        /\ Prompted <=> (cap.manual_fallback /\ ~AutoCode)
        /\ Prompted => Before(cap.calls, "recognize_text", "get_manual_input")
        /\ Called(cap.calls, "recognize_text")
        /\ AutoCode => cap.ret = cap.result.code
        /\ ~cap.manual_fallback =>
              /\ ~Prompted
              /\ cap.ret \in {cap.result.code, <<>>}
              /\ ~AutoCode => cap.ret = <<>>

\* An AI agent recognised nothing, prompted, and returned the line typed.
C6_Witness ==
    /\ cap.pc = "solved" /\ cap.mode = "ai" /\ cap.manual_fallback
    /\ Prompted /\ cap.result.confidence = 0 /\ cap.ret = <<"a">>

\* C7: recognize_text always returns a dict with 'code' and 'confidence';
\* the code is non-empty exactly when the confidence is 0.95 or 0.8,
\* otherwise the code is "" and the confidence 0.0; without a model the
\* code is "" and manual_input_required is set.
C7_RecognizeTextResult ==
    cap.pc = "recognized" =>
        /\ {"code", "confidence"} \subseteq DOMAIN cap.result
        /\ cap.result.code # <<>> <=> cap.result.confidence \in {95, 80}
        /\ cap.result.code = <<>> => cap.result.confidence = 0
        /\ (cap.model = "None" \/ cap.mode # "ai") =>
              /\ cap.result.code = <<>>
              /\ "manual_input_required" \in DOMAIN cap.result
              /\ cap.result.manual_input_required

\* An agent asked for AI mode whose model failed to load: recognize_text
\* gave the empty code with manual_input_required.
C7_Witness ==
    /\ cap.pc = "recognized" /\ cap.agent.requested = "ai" /\ cap.model = "None"
    /\ cap.result.code = <<>> /\ "manual_input_required" \in DOMAIN cap.result

\* C8: after construction the mode is 'manual' or 'ai', and 'ai' only with
\* a loaded model; an unknown mode, an unavailable DdddOcr module and a
\* failing model initialisation all give mode 'manual' with model None.
C8_ModeAfterConstruction ==
    cap.pc = "constructed" =>
        /\ cap.mode \in {"manual", "ai"}
        /\ cap.mode = "ai" => cap.model # "None"
        /\ (\/ cap.requested \notin {"ai", "manual"}
            \/ cap.requested = "ai" /\ ~cap.DDDDOCR_AVAILABLE
            \/ cap.requested = "ai" /\ ~cap.init_ok) =>
              cap.mode = "manual" /\ cap.model = "None"

\* AI mode was asked for, the module is there, and DdddOcr() raised.
C8_Witness ==
    /\ cap.pc = "constructed" /\ cap.requested = "ai"
    /\ cap.DDDDOCR_AVAILABLE /\ ~cap.init_ok /\ cap.mode = "manual"

(***************************************************************************)
(* Properties of DataManagerAgent, checked under SpecData.                 *)
(***************************************************************************)
\* The minutes of [start_time, end_time) as _time_to_minutes reads them.
StartOf(x) == TimeToMinutes(x.start_time)

EndOf(x) == TimeToMinutes(x.end_time)

\* The half-open intervals of x and y have a minute in common; if they
\* have one, the later of the two starts is one.
IntervalsOverlap(x, y) ==
    \E t \in {StartOf(x), StartOf(y)} :
        /\ StartOf(x) <= t /\ t < EndOf(x)
        /\ StartOf(y) <= t /\ t < EndOf(y)

\* Each of x and y starts before the other ends.
EachStartsBeforeOtherEnds(x, y) == StartOf(x) < EndOf(y) /\ StartOf(y) < EndOf(x)

\* The entries of the result for the schedules x and y, and the pairs
\* (new schedule, existing schedule) that are x and y.
EntriesFor(x, y) ==
    {k \in 1..Len(dm.conflicts) :
        dm.conflicts[k].new_course = x /\ dm.conflicts[k].existing_course = y}

PairsOf(x, y) ==
    {p \in (1..Len(dm.course_schedules)) \X (1..Len(dm.existing_schedules)) :
        dm.course_schedules[p[1]] = x /\ dm.existing_schedules[p[2]] = y}

\* C11 as stated: one entry for each pair on the same day whose intervals
\* [start_time, end_time) overlap, none for any other pair.
C11_OneEntryPerOverlappingPair ==
    dm.pc = "checked" =>
        \A x, y \in ScheduleKinds :
            Cardinality(EntriesFor(x, y)) =
                IF x.day_of_week = y.day_of_week /\ IntervalsOverlap(x, y)
                THEN Cardinality(PairsOf(x, y)) ELSE 0

\* C11, amended: one entry for each pair on the same day in which each
\* schedule starts before the other ends, none for any other pair; for
\* two schedules that both start before they end this is the overlap of
\* their intervals [start_time, end_time); pairs on different days and
\* pairs in which one ends when the other starts are never reported; and
\* the verdict for a pair is the same whichever of the two is the new one.
C11_OneEntryPerConflictingPair ==
    dm.pc = "checked" =>
        \A x, y \in ScheduleKinds :
            /\ Cardinality(EntriesFor(x, y)) =
                   IF x.day_of_week = y.day_of_week /\ EachStartsBeforeOtherEnds(x, y)
                   THEN Cardinality(PairsOf(x, y)) ELSE 0
            /\ (StartOf(x) < EndOf(x) /\ StartOf(y) < EndOf(y)) =>
                   (EachStartsBeforeOtherEnds(x, y) <=> IntervalsOverlap(x, y))
            /\ (x.day_of_week # y.day_of_week \/ EndOf(x) = StartOf(y)
                  \/ EndOf(y) = StartOf(x)) => EntriesFor(x, y) = {}
            /\ SchedulesConflict(x, y) <=> SchedulesConflict(y, x)
            /\ PairsOf(x, y) # {} =>
                   (EntriesFor(x, y) # {} <=> SchedulesConflict(y, x))

\* A schedule that ends when it starts, at 10:00, is reported against the
\* lesson from 09:00 to 11:00 of the same day.
C11_Witness ==
    /\ dm.pc = "checked"
    /\ dm.course_schedules =
          <<[day_of_week |-> 1, start_time |-> "10:00", end_time |-> "10:00"]>>
    /\ dm.existing_schedules =
          <<[day_of_week |-> 1, start_time |-> "09:00", end_time |-> "11:00"]>>
    /\ Len(dm.conflicts) = 1

\* The courses save_courses was given, in every list but 'all'.
GivenCourses == dm.courses_data.regular \o dm.courses_data.retake

\* C12: a save_courses that no exception ends returns the number of
\* distinct course ids it wrote, the courses of 'all' not counted a second
\* time, and afterwards the table holds one row per course id, the row of
\* an id written being the last course given with that id.
C12_ReturnsDistinctIdsWritten ==
    dm.pc = "saved" =>
        /\ dm.raised => dm.ret = 0
        /\ ~dm.raised => dm.ret = Cardinality(dm.written)
        /\ ~dm.raised =>
              dm.written = {GivenCourses[k].id : k \in 1..Len(GivenCourses)}
        /\ \A r1, r2 \in dm.courses : r1.id = r2.id => r1 = r2
        /\ \A r \in dm.before : r.id \notin dm.written => r \in dm.courses
        /\ ~dm.raised =>
              \A k \in 1..Len(GivenCourses) :
                 (\A j \in (k + 1)..Len(GivenCourses) :
                     GivenCourses[j].id # GivenCourses[k].id)
                   => GivenCourses[k] \in dm.courses

(***************************************************************************)
(* Properties of auto-select-all, checked under SpecCli.                   *)
(***************************************************************************)
\* C13: with --dry-run the run never calls select_course and never writes
\* an enrollment record, whatever the courses and the availability answers.
C13_DryRunSelectsNothing ==
    (cli.pc \in {"loop", "done"} /\ cli.args.dry_run) =>
        /\ cli.select_calls = 0
        /\ cli.selected = 0
        /\ cli.records = 0

\* A dry run that found seats in two courses and selected none.
C13_Witness ==
    /\ cli.pc = "done" /\ cli.args.dry_run /\ cli.args.max_courses = 1
    /\ cli.check_calls >= 2 /\ cli.successful_courses = 2
    /\ cli.select_calls = 0 /\ cli.records = 0

\* C14: in a run that is not a dry run and has max_courses > 0, the
\* select_course calls that returned True never exceed max_courses, and
\* once that many courses are selected the run calls neither
\* check_course_availability nor select_course again.
C14_StopsAtMaxCourses ==
    (/\ cli.pc \in {"loop", "done"} /\ ~cli.args.dry_run
     /\ cli.args.max_courses > 0) =>
        /\ cli.selected <= cli.args.max_courses
        /\ cli.late_calls = 0
        /\ cli.successful_courses = cli.selected

\* A run with --max-courses 1 that selected one course and stopped with
\* courses left.
C14_Witness ==
    /\ cli.pc = "done" /\ ~cli.args.dry_run /\ cli.args.max_courses = 1
    /\ cli.selected = 1 /\ cli.stopped /\ cli.idx <= Len(cli.courses)
    /\ cli.check_calls = 1

(***************************************************************************)
(* Properties of the web application, checked under SpecWeb.               *)
(***************************************************************************)
Answered == web.pc = "serving" /\ web.last.status # 0

\* The request has no course_id: the body has none to give.
CourseIdMissing(body) == ~body.is_object \/ body.course_id = "None"

\* C15: a request whose session has no user_id is answered 401; a
\* /api/grab_course request without course_id is answered 400; a
\* /api/courses or /api/grab_course request of a user without entry in
\* user_sessions is answered 400; and a rejected request creates no task
\* row and submits no job.
C15_RejectsBeforeWork ==
    Answered =>
        /\ web.last.session_user = "none" => web.last.status = 401
        /\ (/\ web.last.endpoint = "grab_course"
            /\ web.last.session_user # "none"
            /\ CourseIdMissing(web.last.body)) => web.last.status = 400
        /\ (/\ web.last.endpoint \in {"courses", "grab_course"}
            /\ web.last.session_user # "none"
            /\ web.last.session_user \notin web.user_sessions)
               => web.last.status = 400
        /\ web.last.status # 200 =>
              /\ Len(web.tasks) = web.last.tasks_before
              /\ Len(web.jobs) = web.last.jobs_before

\* C18: no two jobs of the same user are running at the same time.
C18_OneTaskPerUserBrowser ==
    web.pc = "serving" =>
        \A i, j \in Running(web) :
            web.jobs[i].user_id = web.jobs[j].user_id => i = j

(***************************************************************************)
(* Properties of SchedulerAgent, checked under SpecSched.                  *)
(***************************************************************************)
\* A firing of the job of course c gets its callback's answer in this step.
FiringReturns(c, success) ==
    /\ sch.pc = "started" /\ c \in sch.running /\ c \notin sch'.running
    /\ sch'.last.course = c /\ sch'.last.success = success

JobsKept == sch'.jobs = sch.jobs /\ sch'.scheduler = sch.scheduler

JobGone(c) == c \notin sch'.jobs /\ c \notin sch'.scheduler

\* C16 as stated: a true result removes the job from the registry and from
\* the scheduler and a success notification goes out; a false result or an
\* exception leaves the jobs as they were.
C16_TrueResultRemovesAndNotifies ==
    [][\A c \in SchedCourses :
          /\ FiringReturns(c, "True") =>
                JobGone(c) /\ sch'.last.sent # {}
          /\ (FiringReturns(c, "False") \/ FiringReturns(c, "raises")) =>
                JobsKept /\ sch'.last.sent = {}]_vars

\* C16 amended: a true result removes the job from the registry and from
\* the scheduler and hands a success message to _send_notification, which
\* sends it on the console and to the notification callback only when
\* notifications are enabled; a false result or an exception leaves the
\* jobs as they were and sends nothing.
C16_TrueResultRemovesJob ==
    [][\A c \in SchedCourses :
          /\ FiringReturns(c, "True") =>
                /\ JobGone(c)
                /\ sch'.jobs = sch.jobs \ {c}
                /\ sch'.scheduler = sch.scheduler \ {c}
                /\ sch.config.notifications =>
                      /\ sch.config.console <=> "console" \in sch'.last.sent
                      /\ "notification" \in sch.callbacks
                            <=> "callback" \in sch'.last.sent
                /\ ~sch.config.notifications => sch'.last.sent = {}
          /\ (FiringReturns(c, "False") \/ FiringReturns(c, "raises")) =>
                JobsKept /\ sch'.last.sent = {}]_vars

\* A firing of c1 returned True with notifications disabled: the job is
\* gone and nothing was sent, while the job of c2 is still registered.
C16_Witness ==
    /\ sch.pc = "started" /\ sch.last.course = "c1"
    /\ sch.last.success = "True" /\ sch.last.sent = {}
    /\ ~sch.config.notifications
    /\ sch.jobs = {"c2"} /\ sch.scheduler = {"c2"} /\ sch.running = {}

(***************************************************************************)
(* Properties of get_captcha_image, checked under SpecImg.                 *)
(***************************************************************************)
IsPrefix(a, b) == Len(a) <= Len(b) /\ SubSeq(b, 1, Len(a)) = a

PresentFrame(n) == img.frames[n].present

\* Every place the method can look in, in the order popup, main, iframes.
AllPlaces ==
    (IF img.popup.open THEN <<"popup">> ELSE <<>>) \o <<"main">>
        \o SelectSeq(iframe_selectors, PresentFrame)

VisibleIn(doc) == \E s \in Selectors : doc[s] = "visible"

PopupVisible == img.popup.open /\ VisibleIn(img.popup.doc)

VisibleAnywhere ==
    \/ PopupVisible
    \/ VisibleIn(img.main)
    \/ \E n \in Iframes : PresentFrame(n) /\ VisibleIn(img.frames[n].doc)

\* The first iframe the page has was probed.
IframesProbed ==
    (\E n \in Iframes : PresentFrame(n)) =>
        \E k \in 1..Len(img.ret.probed) : img.ret.probed[k] \in Iframes

\* C17: the places are probed in the order popup (when more than one page
\* is open), main page, iframes; a returned screenshot is of an element
\* that was found visible; when the method gets past the popup and finds
\* no visible element on the main page it probes the iframes; and with no
\* visible element anywhere it returns None.
C17_ProbeOrderAndResult ==
    img.pc = "returned" =>
        /\ IsPrefix(img.ret.probed, AllPlaces)
        /\ img.ret.kind = "image" => img.ret.element.visible
        /\ (~PopupVisible /\ ~VisibleIn(img.main)) => IframesProbed
        /\ (~VisibleAnywhere /\ img.ret.kind = "image") =>
              ~img.ret.element.visible

====
